---- MODULE Spec2Model ----
(***************************************************************************)
(* Model of the deerma jsq2w/jsq2g humidifier integration                  *)
(* (miio/integrations/deerma/humidifier/airhumidifier_jsqs.py): the device *)
(* facade AirHumidifierJsqs, the status object AirHumidifierJsqsStatus and *)
(* the error objects of miio/exceptions.py.  One caller drives the facade: *)
(* it invokes an operation, reads attributes of a returned status object   *)
(* and drops the outcome before the next invocation.                       *)
(***************************************************************************)
EXTENDS Integers, Sequences, FiniteSets, TLC

VARIABLES model, op, calls, reply, result, got, nStatus, nReads

vars == <<model, op, calls, reply, result, got, nStatus, nReads>>

----------------------------------------------------------------------------
(* Bounds of the exploration.                                              *)

\* status() invocations explored in one behaviour
MaxCalls == 2
\* properties of one batched reply that deviate from the nominal reading
MaxFaulty == 1
\* per-property and device error codes range over -MaxCode..MaxCode, 0 excluded
MaxCode == 1
\* raw fan levels range over 0..MaxRaw (and the 9 of the documentation)
MaxRaw == 5
\* width of the sampled window of the wide numeric readings
MaxSpan == 1
\* set_target_humidity is tried from 40 - Margin to 70 + Margin
Margin == 1

----------------------------------------------------------------------------
(* Python values.  Every value is a record of one shape so that values of  *)
(* different Python types can be compared: t is the type, n the number,    *)
(* s the text.                                                             *)

PyNone == [t |-> "None", n |-> 0, s |-> ""]
PyBool(b) == [t |-> "bool", n |-> IF b THEN 1 ELSE 0, s |-> ""]
PyInt(i) == [t |-> "int", n |-> i, s |-> ""]
PyStr(x) == [t |-> "str", n |-> 0, s |-> x]

\* Python truth value of a value, as tested by a conditional expression
Truthy(v) ==
    CASE v.t = "None" -> FALSE
      [] v.t = "bool" -> v.n = 1
      [] v.t = "int" -> v.n # 0
      [] v.t = "str" -> v.s # ""
      [] OTHER -> TRUE

\* dict operations
EmptyDict == [k \in {} |-> PyNone]
DictPut(d, k, v) == [x \in (DOMAIN d) \cup {k} |-> IF x = k THEN v ELSE d[x]]

----------------------------------------------------------------------------
(* The mapping table.                                                      *)

\* _MAPPING: the key "overtop_humidity" is written twice, the later piid wins
MAPPING ==
    [power |-> [siid |-> 2, piid |-> 1],
     fault |-> [siid |-> 2, piid |-> 2],
     fan_level |-> [siid |-> 2, piid |-> 5],
     target_humidity |-> [siid |-> 2, piid |-> 6],
     status |-> [siid |-> 2, piid |-> 7],
     mode |-> [siid |-> 2, piid |-> 8],
     relative_humidity |-> [siid |-> 3, piid |-> 1],
     temperature |-> [siid |-> 3, piid |-> 7],
     buzzer |-> [siid |-> 5, piid |-> 1],
     led_light |-> [siid |-> 6, piid |-> 1],
     tank_filed |-> [siid |-> 7, piid |-> 1],
     water_shortage_fault |-> [siid |-> 7, piid |-> 2],
     humi_sensor_fault |-> [siid |-> 7, piid |-> 3],
     temp_sensor_fault |-> [siid |-> 7, piid |-> 4],
     overwet_protect |-> [siid |-> 7, piid |-> 5],
     overwet_protect_on |-> [siid |-> 7, piid |-> 6],
     overtop_humidity |-> [siid |-> 7, piid |-> 8]]

\* the keys of _MAPPING in insertion order
MappingKeys ==
    <<"power", "fault", "fan_level", "target_humidity", "status", "mode",
      "relative_humidity", "temperature", "buzzer", "led_light", "tank_filed",
      "water_shortage_fault", "humi_sensor_fault", "temp_sensor_fault",
      "overwet_protect", "overwet_protect_on", "overtop_humidity">>

SUPPORTED_MODELS == {"deerma.humidifier.jsq2w", "deerma.humidifier.jsq2g"}

MIOT_MAPPING == [m \in SUPPORTED_MODELS |-> MAPPING]

----------------------------------------------------------------------------
(* Errors.  An exception is a record: its class, and the code and message  *)
(* a DeviceError carries.                                                  *)

NoExc == [type |-> "", code |-> 0, message |-> ""]
Exc(type) == [type |-> type, code |-> 0, message |-> ""]

\* DeviceError.__init__: code and message are taken from the error payload
DeviceError(error) ==
    [type |-> "DeviceError", code |-> error.code, message |-> error.message]

\* DeviceException: a communication failure (a timeout) carries no payload
DeviceException == Exc("DeviceException")

ErrCodes == ((0 - MaxCode)..MaxCode) \ {0}

\* the error payloads a device reports for a whole call
ErrorPayloads == [code : ErrCodes, message : {"busy"}]

\* the ways a client call can fail
Failures == {DeviceException} \cup {DeviceError(e) : e \in ErrorPayloads}

----------------------------------------------------------------------------
(* Outcomes of a call: what it returns or raises.                          *)
(*   kind   "none" | "status" | "return" | "list" | "raise"                *)
(*   data   the dict of a status object     (kind = "status")              *)
(*   value  the value returned              (kind = "return")              *)
(*   list   the batched property results    (kind = "list")                *)
(*   exc    the exception raised            (kind = "raise")               *)

NoResult ==
    [kind |-> "none", data |-> EmptyDict, value |-> PyNone, list |-> <<>>,
     exc |-> NoExc]
Return(v) == [NoResult EXCEPT !.kind = "return", !.value = v]
ReturnList(l) == [NoResult EXCEPT !.kind = "list", !.list = l]
Raise(e) == [NoResult EXCEPT !.kind = "raise", !.exc = e]

----------------------------------------------------------------------------
(* AirHumidifierJsqsStatus.  An attribute read returns a value or raises,  *)
(* and may record a diagnostic on the module's logger.                     *)

NoRead == [attr |-> "", kind |-> "none", value |-> PyNone, exc |-> "", logged |-> 0]
Ret(v) == [NoRead EXCEPT !.kind = "return", !.value = v]
Throw(e) == [NoRead EXCEPT !.kind = "raise", !.exc = e]

\* __init__: the status object keeps the dict it is given
AirHumidifierJsqsStatus(data) == [NoResult EXCEPT !.kind = "status", !.data = data]

\* self.data[key]
Subscript(data, key) ==
    IF key \in DOMAIN data THEN Ret(data[key]) ELSE Throw("KeyError")

\* self.data.get(key)
DictGet(data, key) ==
    IF key \in DOMAIN data THEN Ret(data[key]) ELSE Ret(PyNone)

\* the members of OperationMode
Low == [t |-> "OperationMode", n |-> 1, s |-> "Low"]
Mid == [t |-> "OperationMode", n |-> 2, s |-> "Mid"]
High == [t |-> "OperationMode", n |-> 3, s |-> "High"]
Auto == [t |-> "OperationMode", n |-> 4, s |-> "Auto"]
OperationModes == {Low, Mid, High, Auto}

\* OperationMode(v): the member whose value equals v (True equals 1), or ValueError
OperationMode(v) ==
    IF v.t \in {"int", "bool"} /\ \E m \in OperationModes : m.n = v.n
    THEN Ret(CHOOSE m \in OperationModes : m.n = v.n)
    ELSE Throw("ValueError")

is_on(data) == Subscript(data, "power")

power(data) ==
    LET on_ == is_on(data)
    IN  IF on_.kind = "raise" THEN on_
        ELSE Ret(PyStr(IF Truthy(on_.value) THEN "on" ELSE "off"))

error(data) == Subscript(data, "fault")

\* the fallback of fan_level: the ValueError is logged and Auto returned
FanLevelFallback == [Ret(Auto) EXCEPT !.logged = 1]

\* a fan_level without the except clause: the ValueError escapes
fan_level_uncaught(data) ==
    LET raw == Subscript(data, "fan_level")
    IN  IF raw.kind = "raise" THEN raw ELSE OperationMode(raw.value)

fan_level(data) ==
    LET raw == Subscript(data, "fan_level")
    IN  IF raw.kind = "raise" THEN raw
        ELSE LET parsed == OperationMode(raw.value)
             IN  IF parsed.kind = "raise" /\ parsed.exc = "ValueError"
                 THEN FanLevelFallback
                 ELSE parsed

target_humidity(data) == DictGet(data, "target_humidity")
relative_humidity(data) == DictGet(data, "relative_humidity")
temperature(data) == DictGet(data, "temperature")
buzzer(data) == DictGet(data, "buzzer")
led_light(data) == DictGet(data, "led_light")
tank_filed(data) == DictGet(data, "tank_filed")
water_shortage_fault(data) == DictGet(data, "water_shortage_fault")
humi_sensor_fault(data) == DictGet(data, "humi_sensor_fault")
overwet_protect(data) == DictGet(data, "overwet_protect")
overwet_protect_on(data) == DictGet(data, "overwet_protect_on")
overtop_humidity(data) == DictGet(data, "overtop_humidity")
temp_sensor_fault(data) == DictGet(data, "temp_sensor_fault")

\* the properties the class defines
Accessors ==
    {"is_on", "power", "error", "fan_level", "target_humidity",
     "relative_humidity", "temperature", "buzzer", "led_light", "tank_filed",
     "water_shortage_fault", "humi_sensor_fault", "overwet_protect",
     "overwet_protect_on", "overtop_humidity", "temp_sensor_fault"}

\* the key of self.data each property reads
Reads ==
    [a \in Accessors |->
        CASE a \in {"is_on", "power"} -> "power"
          [] a = "error" -> "fault"
          [] OTHER -> a]

\* the attributes the output format of status() reads from its result
FormatAttributes ==
    {"power", "error", "target_humidity", "relative_humidity", "temperature",
     "tank_filed", "mode", "led_light", "buzzer", "overwet_protect"}

Attributes == Accessors \cup FormatAttributes

\* result.<attr>: the property of that name, AttributeError when there is none
GetAttr(data, attr) ==
    CASE attr = "is_on" -> is_on(data)
      [] attr = "power" -> power(data)
      [] attr = "error" -> error(data)
      [] attr = "fan_level" -> fan_level(data)
      [] attr = "target_humidity" -> target_humidity(data)
      [] attr = "relative_humidity" -> relative_humidity(data)
      [] attr = "temperature" -> temperature(data)
      [] attr = "buzzer" -> buzzer(data)
      [] attr = "led_light" -> led_light(data)
      [] attr = "tank_filed" -> tank_filed(data)
      [] attr = "water_shortage_fault" -> water_shortage_fault(data)
      [] attr = "humi_sensor_fault" -> humi_sensor_fault(data)
      [] attr = "overwet_protect" -> overwet_protect(data)
      [] attr = "overwet_protect_on" -> overwet_protect_on(data)
      [] attr = "overtop_humidity" -> overtop_humidity(data)
      [] attr = "temp_sensor_fault" -> temp_sensor_fault(data)
      [] OTHER -> Throw("AttributeError")

----------------------------------------------------------------------------
(* The device.  A batched read answers with a list of property results     *)
(* {did, code, value}; the device may leave a property out of its answer   *)
(* or report it with an error code.                                        *)

Names == {MappingKeys[i] : i \in DOMAIN MappingKeys}

BoolNames ==
    {"power", "buzzer", "led_light", "tank_filed", "water_shortage_fault",
     "humi_sensor_fault", "temp_sensor_fault", "overwet_protect",
     "overwet_protect_on", "overtop_humidity"}

\* the raw fan levels a device is taken to report, in and out of 1..4
RawFanLevels == (0..MaxRaw) \cup {9}

\* the values a device reports for a property (the ranges of the table's comments)
Readings(name) ==
    CASE name \in BoolNames -> {PyBool(FALSE), PyBool(TRUE)}
      [] name = "fault" -> {PyInt(i) : i \in 0..2}
      [] name = "fan_level" -> {PyInt(i) : i \in RawFanLevels}
      [] name = "target_humidity" -> {PyInt(i) : i \in 40..(40 + MaxSpan)}
      [] name = "status" -> {PyInt(i) : i \in 1..2}
      [] name = "mode" -> {PyInt(i) : i \in 0..1}
      [] name = "relative_humidity" -> {PyInt(i) : i \in 0..MaxSpan}
      [] name = "temperature" -> {PyInt(i) : i \in (0 - MaxSpan)..MaxSpan}
      [] OTHER -> {PyNone}

\* the reading of a device at rest: on, no fault, lowest fan level
Nominal(name) ==
    CASE name = "power" -> PyBool(TRUE)
      [] name \in BoolNames -> PyBool(FALSE)
      [] name = "fault" -> PyInt(0)
      [] name = "fan_level" -> PyInt(1)
      [] name = "target_humidity" -> PyInt(40)
      [] name = "status" -> PyInt(1)
      [] name = "mode" -> PyInt(0)
      [] name = "relative_humidity" -> PyInt(0)
      [] name = "temperature" -> PyInt(0)
      [] OTHER -> PyNone

Omitted == [kind |-> "omit", code |-> 0, value |-> PyNone]
Errored(name, c) == [kind |-> "err", code |-> c, value |-> Nominal(name)]
Read0(v) == [kind |-> "val", code |-> 0, value |-> v]

\* how the answer for one property can deviate from the nominal reading
Alts(name) ==
    {Omitted}
    \cup {Errored(name, c) : c \in ErrCodes}
    \cup {Read0(v) : v \in Readings(name) \ {Nominal(name)}}

AllAlts == UNION {Alts(name) : name \in Names}

\* the subsets of S of at most k members
RECURSIVE UpTo(_, _)
UpTo(S, k) ==
    IF k = 0 \/ S = {} THEN {{}}
    ELSE LET x == CHOOSE y \in S : TRUE
             without == UpTo(S \ {x}, k)
             with == {D \cup {x} : D \in UpTo(S \ {x}, k - 1)}
         IN  without \cup with

FaultSets == UpTo(Names, MaxFaulty)

\* the deviations of one answer: at most MaxFaulty properties deviate
FaultMaps ==
    UNION {{f \in [D -> AllAlts] : \A d \in D : f[d] \in Alts(d)} : D \in FaultSets}

\* the properties of one service of the table
ServiceNames(siid) == {name \in DOMAIN MAPPING : MAPPING[name].siid = siid}
Services == {MAPPING[name].siid : name \in DOMAIN MAPPING}

\* the outages: every property errored with one code, every property of one
\* service errored with one code, or every property left out
Outages ==
    {[name \in Names |-> Errored(name, c)] : c \in ErrCodes}
    \cup {[name \in ServiceNames(siid) |-> Errored(name, c)] :
             siid \in Services, c \in ErrCodes}
    \cup {[name \in Names |-> Omitted]}

\* the answer to a request for the properties `keys`, deviating as `f` says
RECURSIVE Answer(_, _)
Answer(keys, f) ==
    IF keys = <<>> THEN <<>>
    ELSE LET name == Head(keys)
             alt == IF name \in DOMAIN f THEN f[name] ELSE Read0(Nominal(name))
             rest == Answer(Tail(keys), f)
         IN  IF alt.kind = "omit" THEN rest
             ELSE <<[did |-> name, code |-> alt.code, value |-> alt.value]>> \o rest

----------------------------------------------------------------------------
(* The client (MiotDevice).  A facade operation produces the client calls  *)
(* it made, the outcome of the last of them and its own outcome.           *)

Quiet == [calls |-> <<>>, reply |-> NoResult, result |-> NoResult]

GetCall(names) ==
    [op |-> "get_properties_for_mapping", name |-> "", value |-> PyNone, names |-> names]
SetCall(name, value) ==
    [op |-> "set_property", name |-> name, value |-> value, names |-> {}]

\* the properties of the model's table, in table order
Requested(m) == SelectSeq(MappingKeys, LAMBDA k : k \in DOMAIN MIOT_MAPPING[m])

\* what a batched read of the whole table can come to
GetOutcomes(m) ==
    {ReturnList(Answer(Requested(m), f)) : f \in FaultMaps \cup Outages}
    \cup {Raise(e) : e \in Failures}

\* the success indicator of a write: the property and the code the device gave it
SetResult(name, c) == [t |-> "list", n |-> c, s |-> name]

\* what a write of one property can come to
SetOutcomes(name) ==
    {Return(SetResult(name, c)) : c \in {0} \cup ErrCodes}
    \cup {Raise(e) : e \in Failures}

\* get_properties_for_mapping: one read of the full table of the model
get_properties_for_mapping(o) ==
    [calls |-> <<GetCall(DOMAIN MIOT_MAPPING[model])>>, reply |-> o, result |-> o]

\* set_property: an unknown name fails before anything is sent
set_property(name, value, o) ==
    LET out == IF name \in DOMAIN MIOT_MAPPING[model] THEN o
               ELSE Raise(Exc("ConfigurationError"))
    IN  [calls |-> <<SetCall(name, value)>>, reply |-> out, result |-> out]

----------------------------------------------------------------------------
(* The facade (AirHumidifierJsqs).  `o` is what the client call comes to.  *)

\* prop["value"] if prop["code"] == 0 else None
PropValue(prop) == IF prop.code = 0 THEN prop.value ELSE PyNone

\* the dict comprehension of status(): a later entry of a name replaces an earlier
RECURSIVE Project(_)
Project(props) ==
    IF props = <<>> THEN EmptyDict
    ELSE LET n == Len(props)
         IN  DictPut(Project(SubSeq(props, 1, n - 1)), props[n].did, PropValue(props[n]))

\* a status() that gives up on the first errored property
status_strict(o) ==
    LET read == get_properties_for_mapping(o)
    IN  IF read.result.kind = "raise" THEN read
        ELSE IF \E i \in DOMAIN read.result.list : read.result.list[i].code # 0
        THEN [read EXCEPT !.result = Raise(Exc("KeyError"))]
        ELSE [read EXCEPT !.result = AirHumidifierJsqsStatus(Project(read.result.list))]

\* a status() that hides a failed read behind an empty status object
status_swallow(o) ==
    LET read == get_properties_for_mapping(o)
    IN  IF read.result.kind = "raise"
        THEN [read EXCEPT !.result = AirHumidifierJsqsStatus(EmptyDict)]
        ELSE [read EXCEPT !.result = AirHumidifierJsqsStatus(Project(read.result.list))]

\* a status() that reads the device once and answers from memory afterwards
status_cached(o) ==
    IF nReads > 0
    THEN [Quiet EXCEPT !.result =
            AirHumidifierJsqsStatus([name \in Names |-> Nominal(name)])]
    ELSE LET read == get_properties_for_mapping(o)
         IN  IF read.result.kind = "raise" THEN read
             ELSE [read EXCEPT !.result =
                     AirHumidifierJsqsStatus(Project(read.result.list))]

status(o) ==
    LET read == get_properties_for_mapping(o)
    IN  IF read.result.kind = "raise" THEN read
        ELSE [read EXCEPT !.result = AirHumidifierJsqsStatus(Project(read.result.list))]

on(o) == set_property("power", PyBool(TRUE), o)

off(o) == set_property("power", PyBool(FALSE), o)

\* a set_target_humidity() without the range check
set_target_humidity_unchecked(humidity, o) ==
    set_property("target_humidity", PyInt(humidity), o)

set_target_humidity(humidity, o) ==
    IF humidity <= 40 \/ humidity >= 70
    THEN [Quiet EXCEPT !.result = Raise(Exc("ValueError"))]
    ELSE set_property("target_humidity", PyInt(humidity), o)

set_fan_level(level, o) == set_property("fan_level", PyInt(level.n), o)

\* a set_light() that names a property the table does not hold
set_light_misnamed(light, o) == set_property("led", PyBool(light), o)

set_light(light, o) == set_property("led_light", PyBool(light), o)

set_buzzer(on_, o) == set_property("buzzer", PyBool(on_), o)

set_overwet_protect(overwet, o) == set_property("overwet_protect", PyBool(overwet), o)

set_overwet_protect_on(overwet, o) ==
    set_property("overwet_protect_on", PyBool(overwet), o)

----------------------------------------------------------------------------
(* The state machine.                                                      *)
(*   model    the model the facade was constructed for                     *)
(*   op       the facade operation last invoked and its argument           *)
(*   calls    the client calls that operation made                         *)
(*   reply    what the last of those calls came to                         *)
(*   result   what the operation returned or raised                        *)
(*   got      the last attribute read from a returned status object        *)
(*   nStatus  status() invocations so far; nReads  reads of the table      *)

NoOp == [name |-> "", arg |-> PyNone]

\* the humidities set_target_humidity is tried with
Humidities == (40 - Margin)..(70 + Margin)

Init ==
    /\ model \in SUPPORTED_MODELS
    /\ op = NoOp
    /\ calls = <<>>
    /\ reply = NoResult
    /\ result = NoResult
    /\ got = NoRead
    /\ nStatus = 0
    /\ nReads = 0

\* the caller holds no outcome: the facade can be invoked
Idle == result.kind = "none"

TableReads(cs) ==
    Cardinality({i \in DOMAIN cs : cs[i].op = "get_properties_for_mapping"})

\* the caller invokes operation `name` with `arg`; `r` is what the operation did
Invoke(name, arg, r) ==
    /\ op' = [name |-> name, arg |-> arg]
    /\ calls' = r.calls
    /\ reply' = r.reply
    /\ result' = r.result
    /\ nReads' = nReads + TableReads(r.calls)
    /\ UNCHANGED <<model, got>>

Status ==
    /\ Idle
    /\ nStatus < MaxCalls
    /\ \E o \in GetOutcomes(model) : Invoke("status", PyNone, status(o))
    /\ nStatus' = nStatus + 1

On ==
    /\ Idle
    /\ \E o \in SetOutcomes("power") : Invoke("on", PyNone, on(o))
    /\ UNCHANGED nStatus

Off ==
    /\ Idle
    /\ \E o \in SetOutcomes("power") : Invoke("off", PyNone, off(o))
    /\ UNCHANGED nStatus

SetTargetHumidity ==
    /\ Idle
    /\ \E h \in Humidities : \E o \in SetOutcomes("target_humidity") :
          Invoke("set_target_humidity", PyInt(h), set_target_humidity(h, o))
    /\ UNCHANGED nStatus

SetFanLevel ==
    /\ Idle
    /\ \E level \in OperationModes : \E o \in SetOutcomes("fan_level") :
          Invoke("set_fan_level", level, set_fan_level(level, o))
    /\ UNCHANGED nStatus

SetLight ==
    /\ Idle
    /\ \E b \in BOOLEAN : \E o \in SetOutcomes("led_light") :
          Invoke("set_light", PyBool(b), set_light(b, o))
    /\ UNCHANGED nStatus

SetBuzzer ==
    /\ Idle
    /\ \E b \in BOOLEAN : \E o \in SetOutcomes("buzzer") :
          Invoke("set_buzzer", PyBool(b), set_buzzer(b, o))
    /\ UNCHANGED nStatus

SetOverwetProtect ==
    /\ Idle
    /\ \E b \in BOOLEAN : \E o \in SetOutcomes("overwet_protect") :
          Invoke("set_overwet_protect", PyBool(b), set_overwet_protect(b, o))
    /\ UNCHANGED nStatus

SetOverwetProtectOn ==
    /\ Idle
    /\ \E b \in BOOLEAN : \E o \in SetOutcomes("overwet_protect_on") :
          Invoke("set_overwet_protect_on", PyBool(b), set_overwet_protect_on(b, o))
    /\ UNCHANGED nStatus

\* the caller reads an attribute of the status object it holds; a read changes
\* nothing of the object, so one read per object reaches every state reads can
ReadAttribute ==
    /\ result.kind = "status"
    /\ got.kind = "none"
    /\ \E attr \in Attributes :
          got' = [GetAttr(result.data, attr) EXCEPT !.attr = attr]
    /\ UNCHANGED <<model, op, calls, reply, result, nStatus, nReads>>

\* the caller drops the outcome; nothing of it is kept by the facade
Discard ==
    /\ result.kind # "none"
    /\ op' = NoOp
    /\ calls' = <<>>
    /\ reply' = NoResult
    /\ result' = NoResult
    /\ got' = NoRead
    /\ UNCHANGED <<model, nStatus, nReads>>

Next ==
    \/ Status
    \/ On
    \/ Off
    \/ SetTargetHumidity
    \/ SetFanLevel
    \/ SetLight
    \/ SetBuzzer
    \/ SetOverwetProtect
    \/ SetOverwetProtectOn
    \/ ReadAttribute
    \/ Discard

Spec == Init /\ [][Next]_vars

----------------------------------------------------------------------------
(* What the claims speak of.                                               *)

\* the results of the last batched read that answer for property `name`
Entries(name) ==
    IF reply.kind # "list" THEN {}
    ELSE {reply.list[i] : i \in {j \in DOMAIN reply.list : reply.list[j].did = name}}

\* a status object was returned and attribute `attr` of it has been read
HasRead(attr) == result.kind = "status" /\ got.kind # "none" /\ got.attr = attr

\* the table of the model the facade was constructed for
Table == MIOT_MAPPING[model]

----------------------------------------------------------------------------
C2_HalfOpenRange ==
    op.name = "set_target_humidity" =>
        LET h == op.arg.n
        IN  /\ (calls = <<SetCall("target_humidity", PyInt(h))>>) <=> (40 <= h /\ h < 70)
            /\ ~(40 <= h /\ h < 70) => (calls = <<>> /\ result.kind = "raise")

\* C3: when a property came back with error_code # 0, every accessor reading it
\* returns without raising, and what it returns differs from everything it returns
\* for a successfully read value of that property.
C3_ErroredIsUnavailable ==
    \A attr \in Accessors :
        (HasRead(attr) /\ \E e \in Entries(Reads[attr]) : e.code # 0) =>
            /\ got.kind = "return"
            /\ \A v \in Readings(Reads[attr]) :
                  got.value # GetAttr(DictPut(result.data, Reads[attr], v), attr).value

\* C4: when the response leaves a property out, every accessor reading it returns
\* the "not available" value (None) and does not raise.
C4_OmittedIsUnavailable ==
    \A attr \in Accessors :
        (HasRead(attr) /\ reply.kind = "list" /\ Entries(Reads[attr]) = {}) =>
            /\ got.kind = "return"
            /\ got.value = PyNone

\* C5: for every name of the table returned with error_code 0 and value V, the
\* status object has an accessor for that name and the accessor returns V unchanged.
C5_RoundTrip ==
    result.kind = "status" =>
        \A name \in DOMAIN Table : \A e \in Entries(name) :
            e.code = 0 =>
                \E attr \in Accessors :
                    /\ Reads[attr] = name
                    /\ GetAttr(result.data, attr) = Ret(e.value)

\* C6: fan_level returns Low, Mid, High, Auto for the raw values 1, 2, 3, 4, and
\* for every other raw integer returns Auto and records a diagnostic; it never raises.
C6_FanLevelTotal ==
    \A e \in Entries("fan_level") :
        (HasRead("fan_level") /\ e.code = 0 /\ e.value.t = "int") =>
            /\ got.kind = "return"
            /\ e.value.n = 1 => (got.value = Low /\ got.logged = 0)
            /\ e.value.n = 2 => (got.value = Mid /\ got.logged = 0)
            /\ e.value.n = 3 => (got.value = High /\ got.logged = 0)
            /\ e.value.n = 4 => (got.value = Auto /\ got.logged = 0)
            /\ e.value.n \notin 1..4 => (got.value = Auto /\ got.logged = 1)

C6_Witness ==
    /\ HasRead("fan_level")
    /\ \E e \in Entries("fan_level") : e.code = 0 /\ e.value = PyInt(9)
    /\ got.value = Auto
    /\ got.logged = 1

\* C7: status() returns a status object whenever the batched read completes,
\* whatever the error codes of its entries, and fails only when the read fails.
C7_StatusSurvivesPropertyErrors ==
    op.name = "status" =>
        /\ reply.kind = "list" => result.kind = "status"
        /\ result.kind # "status" => (reply.kind = "raise" /\ result.kind = "raise")

C7_Witness ==
    /\ op.name = "status"
    /\ reply.kind = "list"
    /\ Len(reply.list) = Cardinality(DOMAIN Table)
    /\ \A i \in DOMAIN reply.list : reply.list[i].code # 0
    /\ result.kind = "status"

\* C8: for both models, every name a facade operation passes to set_property and
\* every name a status accessor reads is a key of the model's table; no operation
\* ends in the unknown-name configuration error.
C8_NamesResolve ==
    /\ \A i \in DOMAIN calls :
          calls[i].op = "set_property" => calls[i].name \in DOMAIN Table
    /\ \A attr \in Accessors : HasRead(attr) => Reads[attr] \in DOMAIN Table
    /\ result.exc.type # "ConfigurationError"

C8_Witness ==
    /\ model = "deerma.humidifier.jsq2g"
    /\ op.name = "set_light"
    /\ calls = <<SetCall("led_light", PyBool(TRUE))>>
    /\ result.kind = "return"

\* C9: when the client call of a facade operation raises, the operation ends with
\* that same error, code and message intact, returns nothing, and makes no
\* further client call.
C9_ErrorsSurfaceUnchanged ==
    (op.name # "" /\ reply.kind = "raise") =>
        /\ result.kind = "raise"
        /\ result.exc = reply.exc
        /\ Len(calls) = 1

C9_Witness ==
    /\ op.name = "status"
    /\ reply = Raise(DeviceError([code |-> 1, message |-> "busy"]))
    /\ result = reply
    /\ Len(calls) = 1

\* C10: every status() call makes its own read of the full table (reads and
\* status() calls are equal in number), and the status object it returns holds
\* exactly what that call's response says: the value of each entry with code 0,
\* None for each other entry, and nothing else.
C10_NoCaching ==
    /\ nReads = nStatus
    /\ op.name = "status" =>
          /\ calls = <<GetCall(DOMAIN Table)>>
          /\ result.kind = "status" =>
                /\ reply.kind = "list"
                /\ DOMAIN result.data = {reply.list[i].did : i \in DOMAIN reply.list}
                /\ \A i \in DOMAIN reply.list :
                      result.data[reply.list[i].did] =
                          IF reply.list[i].code = 0 THEN reply.list[i].value ELSE PyNone

C10_Witness ==
    /\ nStatus = 2
    /\ nReads = 2
    /\ op.name = "status"
    /\ result.kind = "status"
    /\ \E name \in DOMAIN result.data : result.data[name] # Nominal(name)

====
